---- MODULE Spec2Model ----
(***************************************************************************)
(* A model of the ark-client session and of its read-only operations:      *)
(* OfflineClient::connect, Client::list_vtxos, Client::spendable_vtxos,    *)
(* Client::offchain_balance and Client::transaction_history                *)
(* (src/ark-client/src/lib.rs).  Every operation is a task that suspends   *)
(* at each awaited collaborator call; the collaborators (coordinator       *)
(* transport, blockchain source, boarding wallet, history generation) are  *)
(* the environment: their data answers are fixed by `world`, and each call *)
(* may also fail.                                                          *)
(***************************************************************************)
EXTENDS Integers, Sequences, FiniteSets, TLC

\* ------------------------------------------------------------------ bounds
MaxVtxos == 2       \* longest spendable list the coordinator reports
MaxUtxos == 2       \* most outputs found at the boarding address
MaxRecs  == 1       \* most records a history-generation collaborator returns
MaxTime  == 4       \* latest reading of the clock
MaxTasks == 2       \* operations in flight on one connected session

\* ------------------------------------------------------------ basic values
\* Option<T>: None is the empty tuple, Some(x) the one-element tuple.
None == << >>
Some(x) == << x >>
IsSome(o) == o # << >>
Unwrap(o) == o[1]

\* Result<T, Error>
Ok(v) == << "ok", v >>
Err(e) == << "err", e >>
IsOk(r) == r # << >> /\ r[1] = "ok"
IsErr(r) == r # << >> /\ r[1] = "err"

SeqsUpTo(S, n) == UNION { [1..k -> S] : k \in 0..n }

\* bitcoin::OutPoint
OutPoint(t, v) == [txid |-> t, vout |-> v]

\* ark_core::server::VtxoOutPoint, as far as this file reads it
VtxoOutPoint(o, a, p) == [outpoint |-> o, amount |-> a, is_pending |-> p]

ExplorerUtxo(o, a, c, s) ==
    [outpoint |-> o, amount |-> a, confirmation_blocktime |-> c, is_spent |-> s]

SpendStatus(s) == [spend_txid |-> s]

OffChainBalance(p, c) == [pending |-> p, confirmed |-> c]

OffChainBalanceDefault == OffChainBalance(0, 0)

pending(b) == b.pending

confirmed(b) == b.confirmed

total(b) == b.pending + b.confirmed

EmptyListVtxo == [spendable |-> << >>, spent |-> << >>]

\* ------------------------------------------------------ the input universe
Times == {-1} \cup (1..MaxTime)      \* -1: a clock set before the epoch
ConfTimes == {1}                     \* block times of confirmed outputs
Delays == {1, 2}                     \* relative exit delays get_info may report

VtxoTxids == {"v1", "v2"}
AmountOf(t) == IF t = "v1" THEN 1 ELSE IF t = "v2" THEN 2 ELSE 4

Units == { VtxoOutPoint(OutPoint(t, 0), AmountOf(t), p) : t \in VtxoTxids, p \in BOOLEAN }

SpentUnit == VtxoOutPoint(OutPoint("v0", 0), 4, FALSE)

\* What the blockchain source knows of a unit's output: nothing, an
\* unconfirmed output, or an output confirmed at some block time.
ChainStates == { << "absent" >>, << "utxo", None >> } \cup { << "utxo", Some(c) >> : c \in ConfTimes }

ChainEntry(t, st) ==
    IF st[1] = "absent" THEN << >>
    ELSE << ExplorerUtxo(OutPoint(t, 0), AmountOf(t), st[2], FALSE) >>

Chains == { ChainEntry("v1", s1) \o ChainEntry("v2", s2) : s1, s2 \in ChainStates }

\* Outputs that may sit at the boarding address: confirmed or not, spent by a
\* round transaction or not.
BoardingTxids == {"b1", "b2", "b3", "b4"}
BoardingConf(t) == IF t \in {"b1", "b2"} THEN Some(1) ELSE None
BoardingSpend(t) == IF t = "b2" THEN Some("r2") ELSE IF t = "b4" THEN Some("r4") ELSE None
BoardingUtxos ==
    { ExplorerUtxo(OutPoint(t, 0), 8, BoardingConf(t), IsSome(BoardingSpend(t))) :
        t \in BoardingTxids }

IncomingRecs == { [kind |-> "Incoming", txid |-> "i" , amount |-> 3, created_at |-> c] : c \in {1, 2} }
OutgoingRecs == { [kind |-> "Outgoing", txid |-> "o" , amount |-> 3, created_at |-> c] : c \in {1, 2} }

VARIABLES
    world,          \* the collaborators' data answers, the clock's readings and
                    \* the number of callers, fixed for a behaviour
    offline,        \* Some(OfflineClient) until connect(self) takes it
    handshake,      \* the connect future: None, or [self, pc]
    client,         \* Some(Client) once connect returned Ok
    connect_result, \* what connect returned: << >> while it has not
    transport_log,  \* the handshake requests the transport has answered
    tasks           \* the operations called on the client, one record each

vars == << world, offline, handshake, client, connect_result, transport_log, tasks >>

session == << offline, handshake, client, connect_result, transport_log >>

\* ------------------------------------------------ identities and addresses
\* ark_core::default_vtxo::DefaultVtxo::new: the derived identity, a pure
\* function of the coordinator key, the owner key, the exit delay and the
\* network.
DefaultVtxo(server, owner, exit_delay, network) ==
    [server |-> server, owner |-> owner, exit_delay |-> exit_delay, network |-> network]

to_ark_address(v) == [kind |-> "ark", of |-> v]

address(v) == [kind |-> "onchain", of |-> v]

\* The exit-eligibility predicate of the derived identity: the relative
\* timelock that started at the confirmation time has elapsed.
can_be_claimed_unilaterally_by_owner(v, now, confirmation_blocktime) ==
    now > confirmation_blocktime + v.exit_delay

get_offchain_address(c) ==
    LET default_vtxo == DefaultVtxo(c.server_info.pk, c.inner.kp,
                                    c.server_info.unilateral_exit_delay,
                                    c.server_info.network)
    IN  << to_ark_address(default_vtxo), default_vtxo >>

get_offchain_addresses(c) == << get_offchain_address(c) >>

\* wallet.new_boarding_output(..)?: the wallet may refuse.
get_boarding_address(c, wallet_ok) ==
    IF wallet_ok
    THEN Ok([kind |-> "boarding",
             of |-> << c.server_info.pk, c.server_info.unilateral_exit_delay,
                       c.server_info.boarding_descriptor_template,
                       c.server_info.network >>])
    ELSE Err("wallet")

get_boarding_addresses(c, wallet_ok) ==
    LET a == get_boarding_address(c, wallet_ok)
    IN  IF IsOk(a) THEN Ok(<< a[2] >>) ELSE a

\* ------------------------------------------------- the collaborators' answers
\* ark_grpc::Client::list_vtxos(&address)
CoordinatorListVtxos(addr, ok) ==
    IF ok THEN Ok(world.coordinator) ELSE Err("transport")

\* Blockchain::find_outpoints(&address)
BlockchainFindOutpoints(addr, ok) ==
    IF ~ok THEN Err("blockchain")
    ELSE IF addr.kind = "boarding" THEN Ok(world.boarding) ELSE Ok(world.chain)

\* Blockchain::get_output_status(&txid, vout)
BlockchainGetOutputStatus(txid, vout, ok) ==
    IF ok THEN Ok(SpendStatus(BoardingSpend(txid))) ELSE Err("blockchain")

\* ark_core::generate_incoming_vtxo_transaction_history
generate_incoming_vtxo_transaction_history(spent, spendable, boarding_round_txids, ok) ==
    IF ok THEN Ok(world.incoming) ELSE Err("history")

\* ark_core::generate_outgoing_vtxo_transaction_history
generate_outgoing_vtxo_transaction_history(spent, spendable, ok) ==
    IF ok THEN Ok(world.outgoing) ELSE Err("history")

\* ArkTransaction::created_at: the creation timestamp a record is ordered by;
\* a boarding record carries its confirmation time, and an unconfirmed one the
\* stand-in the world fixes.
created_at(tx) ==
    IF tx.kind = "Boarding"
    THEN IF IsSome(tx.confirmed_at) THEN Unwrap(tx.confirmed_at)
         ELSE world.unconfirmed_created_at
    ELSE tx.created_at

\* ------------------------------------------------------- spendable_vtxos
\* explorer_utxos.iter().find(|u| u.outpoint == vtxo_outpoint.outpoint)
RECURSIVE FindFrom(_, _, _)
FindFrom(explorer_utxos, outpoint, i) ==
    IF i > Len(explorer_utxos) THEN None
    ELSE IF explorer_utxos[i].outpoint = outpoint THEN Some(explorer_utxos[i])
    ELSE FindFrom(explorer_utxos, outpoint, i + 1)

Find(explorer_utxos, outpoint) == FindFrom(explorer_utxos, outpoint, 1)

\* now.as_duration().try_into(): a std Duration holds no negative time.
NowAsDuration(now) == IF now >= 0 THEN Ok(now) ELSE Err("ad_hoc")

\* The match on one off-chain unit: "push" (either arm) or the error of the
\* guard's `?`.  A pattern whose guard is false falls through to the `_` arm.
MatchArm(found, vtxo, now) ==
    IF IsSome(found) /\ IsSome(Unwrap(found).confirmation_blocktime)
    THEN LET d == NowAsDuration(now)
         IN  IF IsErr(d) THEN d
             ELSE IF ~can_be_claimed_unilaterally_by_owner(
                         vtxo, d[2], Unwrap(Unwrap(found).confirmation_blocktime))
                  THEN Ok("confirmed_inactive")
                  ELSE Ok("wildcard")
    ELSE Ok("wildcard")

\* Faulty variant: the wildcard arm drops the unit.
ArmPushesConfirmedOnly(arm) == arm = "confirmed_inactive"

\* The body of an arm: both arms push the unit.
ArmPushes(arm) == arm \in {"confirmed_inactive", "wildcard"}

\* for vtxo_outpoint in vtxos.spendable { match .. }
RECURSIVE FilterFrom(_, _, _, _, _, _)
FilterFrom(spendable, explorer_utxos, vtxo, now, i, vtxo_outpoints) ==
    IF i > Len(spendable) THEN Ok(vtxo_outpoints)
    ELSE LET arm == MatchArm(Find(explorer_utxos, spendable[i].outpoint), vtxo, now)
         IN  IF IsErr(arm) THEN arm
             ELSE FilterFrom(spendable, explorer_utxos, vtxo, now, i + 1,
                             IF ArmPushes(arm[2])
                             THEN Append(vtxo_outpoints, spendable[i])
                             ELSE vtxo_outpoints)

FilterSpendable(spendable, explorer_utxos, vtxo, now) ==
    FilterFrom(spendable, explorer_utxos, vtxo, now, 1, << >>)

\* ------------------------------------------------------ offchain_balance
\* list.iter().flat_map(|(vtxos, _)| vtxos)
RECURSIVE FlatMapFrom(_, _)
FlatMapFrom(list, i) ==
    IF i > Len(list) THEN << >> ELSE list[i][1] \o FlatMapFrom(list, i + 1)

FlatMap(list) == FlatMapFrom(list, 1)

\* Faulty variant: both arms add to pending.
FoldStepAllPending(acc, x) == OffChainBalance(acc.pending + x.amount, acc.confirmed)

\* the fold's closure
FoldStep(acc, x) ==
    IF x.is_pending
    THEN OffChainBalance(acc.pending + x.amount, acc.confirmed)
    ELSE OffChainBalance(acc.pending, acc.confirmed + x.amount)

RECURSIVE FoldFrom(_, _, _)
FoldFrom(xs, i, acc) ==
    IF i > Len(xs) THEN acc ELSE FoldFrom(xs, i + 1, FoldStep(acc, xs[i]))

BalanceOf(list) == FoldFrom(FlatMap(list), 1, OffChainBalanceDefault)

\* --------------------------------------------------- transaction_history
\* confirmation_blocktime.map(|t| t as i64): block times are far below 2^63,
\* where the cast keeps the value.
ConfirmedAt(confirmation_blocktime) ==
    IF IsSome(confirmation_blocktime) THEN Some(Unwrap(confirmation_blocktime)) ELSE None

BoardingRecord(utxo) ==
    [kind |-> "Boarding", txid |-> utxo.outpoint.txid, amount |-> utxo.amount,
     confirmed_at |-> ConfirmedAt(utxo.confirmation_blocktime)]

\* Faulty variant: the spending transaction is not recorded.
RecordTransitionDropped(boarding_round_transactions, status) == boarding_round_transactions

\* if let Some(spend_txid) = status.spend_txid { push }
RecordTransition(boarding_round_transactions, status) ==
    IF IsSome(status.spend_txid)
    THEN Append(boarding_round_transactions, Unwrap(status.spend_txid))
    ELSE boarding_round_transactions

\* [boarding, incoming, outgoing].concat()
Concat(boarding_transactions, incoming_transactions, outgoing_transactions) ==
    boarding_transactions \o incoming_transactions \o outgoing_transactions

\* Faulty variant: an unstable sort, equal keys change places.
RECURSIVE InsertPosBeforeEqual(_, _, _)
InsertPosBeforeEqual(sorted, x, i) ==
    IF i > Len(sorted) \/ created_at(sorted[i]) >= created_at(x) THEN i
    ELSE InsertPosBeforeEqual(sorted, x, i + 1)

\* Where a stable sort puts x among the already sorted `sorted`: after every
\* element whose key is not greater.
RECURSIVE InsertPos(_, _, _)
InsertPos(sorted, x, i) ==
    IF i > Len(sorted) \/ created_at(sorted[i]) > created_at(x) THEN i
    ELSE InsertPos(sorted, x, i + 1)

Insert(sorted, x) ==
    LET p == InsertPos(sorted, x, 1)
    IN  SubSeq(sorted, 1, p - 1) \o << x >> \o SubSeq(sorted, p, Len(sorted))

\* txs.sort_by_key(|a| a.created_at()): slice::sort_by_key is a stable sort
RECURSIVE SortFrom(_, _, _)
SortFrom(txs, i, sorted) ==
    IF i > Len(txs) THEN sorted ELSE SortFrom(txs, i + 1, Insert(sorted, txs[i]))

SortByKey(txs) == SortFrom(txs, 1, << >>)

\* ------------------------------------------------------------- the session
\* OfflineClient::new
OfflineClient ==
    [name |-> "client", kp |-> "owner_kp", network_client |-> "ark_server_url",
     blockchain |-> "blockchain", wallet |-> "wallet"]

\* server::Info as returned by get_info
Info(exit_delay) ==
    [pk |-> "server_pk", network |-> "regtest", unilateral_exit_delay |-> exit_delay,
     boarding_descriptor_template |-> "template"]

\* Client { inner: self, server_info }
Client(self, server_info) == [inner |-> self, server_info |-> server_info]

NewTask ==
    [op |-> "none", pc |-> "idle", now |-> None, vtxos |-> EmptyListVtxo,
     outpoints |-> << >>, idx |-> 0,
     boarding_transactions |-> << >>, boarding_round_transactions |-> << >>,
     list |-> << >>, log |-> << >>, result |-> << >>]

\* One collaborator call, as the task made it and as it was answered.
Call(name, args, ret) == [call |-> name, args |-> args, ret |-> ret]

Suspended == {"list_vtxos", "find_outpoints", "get_output_status"}

\* ------------------------------------------------------------------- Init
WorldsRecon ==
    { [coordinator |-> [spendable |-> sp, spent |-> << >>], chain |-> ch,
       boarding |-> << >>, incoming |-> << >>, outgoing |-> << >>,
       unconfirmed_created_at |-> 0, times |-> Times, callers |-> 1] :
        sp \in SeqsUpTo(Units, MaxVtxos), ch \in Chains }

UnconfirmedKeys == {0, 3}

WorldsHist ==
    { [coordinator |-> [spendable |-> << VtxoOutPoint(OutPoint("v1", 0), 1, TRUE) >>,
                        spent |-> << SpentUnit >>],
       chain |-> ChainEntry("v1", << "utxo", Some(1) >>),
       boarding |-> b, incoming |-> i, outgoing |-> o,
       unconfirmed_created_at |-> k, times |-> {MaxTime}, callers |-> 1] :
        b \in SeqsUpTo(BoardingUtxos, MaxUtxos),
        i \in SeqsUpTo(IncomingRecs, MaxRecs),
        o \in SeqsUpTo(OutgoingRecs, MaxRecs),
        k \in UnconfirmedKeys }

WorldsConcurrent ==
    { [coordinator |-> [spendable |-> << VtxoOutPoint(OutPoint("v1", 0), 1, TRUE),
                                         VtxoOutPoint(OutPoint("v2", 0), 2, FALSE) >>,
                        spent |-> << SpentUnit >>],
       chain |-> ChainEntry("v1", << "utxo", Some(1) >>) \o ChainEntry("v2", << "utxo", None >>),
       boarding |-> << ExplorerUtxo(OutPoint("b2", 0), 8, BoardingConf("b2"), TRUE),
                       ExplorerUtxo(OutPoint("b3", 0), 8, BoardingConf("b3"), FALSE) >>,
       incoming |-> << [kind |-> "Incoming", txid |-> "i", amount |-> 3, created_at |-> 1] >>,
       outgoing |-> << [kind |-> "Outgoing", txid |-> "o", amount |-> 3, created_at |-> 1] >>,
       unconfirmed_created_at |-> 0, times |-> {-1, MaxTime}, callers |-> MaxTasks] }

Init ==
    /\ world \in WorldsRecon \cup WorldsHist \cup WorldsConcurrent
    /\ offline = Some(OfflineClient)
    /\ handshake = None
    /\ client = None
    /\ connect_result = << >>
    /\ transport_log = << >>
    /\ tasks = [t \in 1..world.callers |-> NewTask]

\* ------------------------------------------------- OfflineClient::connect
\* connect(mut self): the call takes the unconnected session by value.
Connect ==
    /\ IsSome(offline)
    /\ handshake' = Some([self |-> Unwrap(offline), pc |-> "connect"])
    /\ offline' = None
    /\ UNCHANGED << world, client, connect_result, transport_log, tasks >>

\* Faulty variant: connect()'s error is not looked at.
ConnectReturnsUnchecked ==
    /\ IsSome(handshake) /\ Unwrap(handshake).pc = "connect"
    /\ \E ok \in BOOLEAN :
        /\ transport_log' = Append(transport_log, << "connect", ok >>)
        /\ handshake' = Some([Unwrap(handshake) EXCEPT !.pc = "get_info"])
    /\ UNCHANGED << world, offline, client, connect_result, tasks >>

\* self.network_client.connect().await?
ConnectReturns ==
    /\ IsSome(handshake) /\ Unwrap(handshake).pc = "connect"
    /\ \E ok \in BOOLEAN :
        /\ transport_log' = Append(transport_log, << "connect", ok >>)
        /\ IF ok
           THEN /\ handshake' = Some([Unwrap(handshake) EXCEPT !.pc = "get_info"])
                /\ UNCHANGED connect_result
           ELSE /\ handshake' = None
                /\ connect_result' = Err("transport")
    /\ UNCHANGED << world, offline, client, tasks >>

\* let server_info = self.network_client.get_info().await?; Ok(Client {..})
GetInfoReturns ==
    /\ IsSome(handshake) /\ Unwrap(handshake).pc = "get_info"
    /\ \E ok \in BOOLEAN, exit_delay \in Delays :
        /\ transport_log' = Append(transport_log, << "get_info", ok >>)
        /\ handshake' = None
        /\ IF ok
           THEN /\ client' = Some(Client(Unwrap(handshake).self, Info(exit_delay)))
                /\ connect_result' = Ok("client")
           ELSE /\ client' = None
                /\ connect_result' = Err("transport")
    /\ UNCHANGED << world, offline, tasks >>

\* The caller drops the connect future at one of its awaits.
AbandonConnect ==
    /\ IsSome(handshake)
    /\ handshake' = None
    /\ UNCHANGED << world, offline, client, connect_result, transport_log, tasks >>

\* ---------------------------------------------------------- the operations
\* Faulty variant: boarding_transactions is one buffer shared by the
\* operations in flight.
SetTaskShared(t, rec) ==
    [u \in DOMAIN tasks |->
        IF u = t THEN rec
        ELSE IF tasks[u].pc \in Suspended
             THEN [tasks[u] EXCEPT !.boarding_transactions = rec.boarding_transactions]
             ELSE tasks[u]]

\* A task's locals (`let mut ..`) are its own: a step writes its own record.
SetTask(t, rec) == [tasks EXCEPT ![t] = rec]

Finish(task, result) == [task EXCEPT !.pc = "done", !.result = result]

\* Faulty variant: the error is swallowed and an empty result returned.
PropagateSwallowed(task, err) == Finish(task, Ok(<< >>))

\* `?` on a failed step: the operation ends there and returns the error.
Propagate(task, err) == Finish(task, err)

Logged(task, name, args, ret) == [task EXCEPT !.log = Append(task.log, Call(name, args, ret))]

\* vtxos.spendable.append(..); vtxos.spent.append(..)
AppendListVtxo(vtxos, list) ==
    [spendable |-> vtxos.spendable \o list.spendable, spent |-> vtxos.spent \o list.spent]

\* Faulty variant: the spent units are left out.
HistoryInputSpendableOnly(vtxos) == [spendable |-> vtxos.spendable, spent |-> << >>]

\* What transaction_history hands to the history generation: list_vtxos'
\* result as it is.
HistoryInput(vtxos) == vtxos

\* list_vtxos(&self), up to its await
CallListVtxos(t) ==
    /\ IsSome(client) /\ tasks[t].pc = "idle"
    /\ tasks' = SetTask(t, [tasks[t] EXCEPT !.op = "list_vtxos", !.pc = "list_vtxos"])
    /\ UNCHANGED << world, session >>

\* spendable_vtxos(&self), up to its first await
CallSpendableVtxos(t) ==
    /\ IsSome(client) /\ tasks[t].pc = "idle"
    /\ \E now \in world.times :
        tasks' = SetTask(t, Logged([tasks[t] EXCEPT !.op = "spendable_vtxos",
                                                    !.pc = "list_vtxos",
                                                    !.now = Some(now)],
                                   "Timestamp::now", << >>, Ok(now)))
    /\ UNCHANGED << world, session >>

\* offchain_balance(&self), up to the first await of its spendable_vtxos
CallOffchainBalance(t) ==
    /\ IsSome(client) /\ tasks[t].pc = "idle"
    /\ \E now \in world.times :
        tasks' = SetTask(t, Logged([tasks[t] EXCEPT !.op = "offchain_balance",
                                                    !.pc = "list_vtxos",
                                                    !.now = Some(now)],
                                   "Timestamp::now", << >>, Ok(now)))
    /\ UNCHANGED << world, session >>

\* Faulty variant: the boarding records of an earlier call are kept on the
\* client and a later call starts from them.
CallTransactionHistoryCached(t) ==
    /\ IsSome(client) /\ tasks[t].pc = "idle"
    /\ \E wallet_ok \in BOOLEAN :
        LET boarding_addresses == get_boarding_addresses(Unwrap(client), wallet_ok)
            earlier == { u \in DOMAIN tasks :
                           tasks[u].op = "transaction_history" /\ tasks[u].pc = "done" }
            cached == IF earlier = {} THEN << >>
                      ELSE tasks[CHOOSE u \in earlier : TRUE].boarding_transactions
            started == Logged([tasks[t] EXCEPT !.op = "transaction_history",
                                               !.boarding_transactions = cached],
                              "new_boarding_output", << >>, boarding_addresses)
        IN  tasks' = SetTask(t, IF IsErr(boarding_addresses)
                                THEN Propagate(started, boarding_addresses)
                                ELSE [started EXCEPT !.pc = "find_outpoints"])
    /\ UNCHANGED << world, session >>

\* transaction_history(&self), up to its first await
CallTransactionHistory(t) ==
    /\ IsSome(client) /\ tasks[t].pc = "idle"
    /\ \E wallet_ok \in BOOLEAN :
        LET boarding_addresses == get_boarding_addresses(Unwrap(client), wallet_ok)
            started == Logged([tasks[t] EXCEPT !.op = "transaction_history"],
                              "new_boarding_output", << >>, boarding_addresses)
        IN  tasks' = SetTask(t, IF IsErr(boarding_addresses)
                                THEN Propagate(started, boarding_addresses)
                                ELSE [started EXCEPT !.pc = "find_outpoints"])
    /\ UNCHANGED << world, session >>

\* list_vtxos: the coordinator answers, the loop over the one address ends
ListVtxosReturns(t) ==
    /\ tasks[t].op = "list_vtxos" /\ tasks[t].pc = "list_vtxos"
    /\ \E ok \in BOOLEAN :
        LET addr == get_offchain_addresses(Unwrap(client))[1][1]
            list == CoordinatorListVtxos(addr, ok)
            task == Logged(tasks[t], "list_vtxos", << addr >>, list)
        IN  tasks' = SetTask(t, IF IsErr(list) THEN Propagate(task, list)
                                ELSE Finish(task, Ok(AppendListVtxo(EmptyListVtxo, list[2]))))
    /\ UNCHANGED << world, session >>

\* spendable_vtxos: self.network_client().list_vtxos(&address).await?
SpendableListVtxosReturns(t) ==
    /\ tasks[t].op \in {"spendable_vtxos", "offchain_balance"} /\ tasks[t].pc = "list_vtxos"
    /\ \E ok \in BOOLEAN :
        LET addr == get_offchain_addresses(Unwrap(client))[1][1]
            vtxos == CoordinatorListVtxos(addr, ok)
            task == Logged(tasks[t], "list_vtxos", << addr >>, vtxos)
        IN  tasks' = SetTask(t, IF IsErr(vtxos) THEN Propagate(task, vtxos)
                                ELSE [task EXCEPT !.vtxos = vtxos[2], !.pc = "find_outpoints"])
    /\ UNCHANGED << world, session >>

\* Whether the loop reaches the guard of the first arm, and with it the
\* conversion of `now`.
ReachesGuard(spendable, explorer_utxos) ==
    \E i \in 1..Len(spendable) :
        LET found == Find(explorer_utxos, spendable[i].outpoint)
        IN  IsSome(found) /\ IsSome(Unwrap(found).confirmation_blocktime)

\* spendable_vtxos: self.blockchain().find_outpoints(vtxo.address()).await?,
\* then the loop over vtxos.spendable, the push and Ok(spendable); for
\* offchain_balance the fold over what spendable_vtxos returned.
SpendableFindOutpointsReturns(t) ==
    /\ tasks[t].op \in {"spendable_vtxos", "offchain_balance"} /\ tasks[t].pc = "find_outpoints"
    /\ \E ok \in BOOLEAN :
        LET vtxo == get_offchain_addresses(Unwrap(client))[1][2]
            now == Unwrap(tasks[t].now)
            explorer_utxos == BlockchainFindOutpoints(address(vtxo), ok)
            task == Logged(tasks[t], "find_outpoints", << address(vtxo) >>, explorer_utxos)
        IN  IF IsErr(explorer_utxos)
            THEN tasks' = SetTask(t, Propagate(task, explorer_utxos))
            ELSE LET vtxo_outpoints ==
                         FilterSpendable(task.vtxos.spendable, explorer_utxos[2], vtxo, now)
                     converted ==
                         IF ReachesGuard(task.vtxos.spendable, explorer_utxos[2])
                         THEN Logged(task, "try_into", << now >>, NowAsDuration(now))
                         ELSE task
                 IN  IF IsErr(vtxo_outpoints)
                     THEN tasks' = SetTask(t, Propagate(converted, vtxo_outpoints))
                     ELSE LET spendable == << << vtxo_outpoints[2], vtxo >> >>
                          IN  tasks' = SetTask(t,
                                  IF task.op = "spendable_vtxos"
                                  THEN Finish(converted, Ok(spendable))
                                  ELSE Finish([converted EXCEPT !.list = spendable],
                                              Ok(BalanceOf(spendable))))
    /\ UNCHANGED << world, session >>

\* The loop over the outputs found: push the boarding record of output i and
\* suspend at its get_output_status; past the last output, at list_vtxos.
NextOutput(task, i) ==
    IF i > Len(task.outpoints)
    THEN [task EXCEPT !.pc = "list_vtxos"]
    ELSE [task EXCEPT !.idx = i, !.pc = "get_output_status",
                      !.boarding_transactions =
                          Append(task.boarding_transactions, BoardingRecord(task.outpoints[i]))]

\* transaction_history: self.blockchain().find_outpoints(boarding_address).await?
HistoryFindOutpointsReturns(t) ==
    /\ tasks[t].op = "transaction_history" /\ tasks[t].pc = "find_outpoints"
    /\ \E ok \in BOOLEAN :
        LET boarding_address == get_boarding_addresses(Unwrap(client), TRUE)[2][1]
            outpoints == BlockchainFindOutpoints(boarding_address, ok)
            task == Logged(tasks[t], "find_outpoints", << boarding_address >>, outpoints)
        IN  tasks' = SetTask(t, IF IsErr(outpoints) THEN Propagate(task, outpoints)
                                ELSE NextOutput([task EXCEPT !.outpoints = outpoints[2]], 1))
    /\ UNCHANGED << world, session >>

\* transaction_history: get_output_status(&outpoint.txid, outpoint.vout).await?
HistoryOutputStatusReturns(t) ==
    /\ tasks[t].op = "transaction_history" /\ tasks[t].pc = "get_output_status"
    /\ \E ok \in BOOLEAN :
        LET outpoint == tasks[t].outpoints[tasks[t].idx].outpoint
            status == BlockchainGetOutputStatus(outpoint.txid, outpoint.vout, ok)
            task == Logged(tasks[t], "get_output_status",
                           << outpoint.txid, outpoint.vout >>, status)
        IN  tasks' = SetTask(t,
                IF IsErr(status) THEN Propagate(task, status)
                ELSE NextOutput([task EXCEPT !.boarding_round_transactions =
                                     RecordTransition(task.boarding_round_transactions,
                                                      status[2])],
                                task.idx + 1))
    /\ UNCHANGED << world, session >>

\* transaction_history: self.list_vtxos().await?, the two history
\* generations, the concatenation and the sort
HistoryListVtxosReturns(t) ==
    /\ tasks[t].op = "transaction_history" /\ tasks[t].pc = "list_vtxos"
    /\ \E ok \in BOOLEAN, incoming_ok \in BOOLEAN, outgoing_ok \in BOOLEAN :
        LET addr == get_offchain_addresses(Unwrap(client))[1][1]
            list == CoordinatorListVtxos(addr, ok)
            listed == Logged(tasks[t], "list_vtxos", << addr >>, list)
        IN  IF IsErr(list)
            THEN tasks' = SetTask(t, Propagate(listed, list))
            ELSE LET vtxos == HistoryInput(AppendListVtxo(EmptyListVtxo, list[2]))
                     incoming_transactions ==
                         generate_incoming_vtxo_transaction_history(
                             vtxos.spent, vtxos.spendable,
                             listed.boarding_round_transactions, incoming_ok)
                     with_incoming ==
                         Logged([listed EXCEPT !.vtxos = list[2]], "generate_incoming",
                                << vtxos.spent, vtxos.spendable,
                                   listed.boarding_round_transactions >>,
                                incoming_transactions)
                     outgoing_transactions ==
                         generate_outgoing_vtxo_transaction_history(
                             vtxos.spent, vtxos.spendable, outgoing_ok)
                     with_outgoing ==
                         Logged(with_incoming, "generate_outgoing",
                                << vtxos.spent, vtxos.spendable >>, outgoing_transactions)
                 IN  tasks' = SetTask(t,
                         IF IsErr(incoming_transactions)
                         THEN Propagate(with_incoming, incoming_transactions)
                         ELSE IF IsErr(outgoing_transactions)
                         THEN Propagate(with_outgoing, outgoing_transactions)
                         ELSE Finish(with_outgoing,
                                     Ok(SortByKey(Concat(listed.boarding_transactions,
                                                         incoming_transactions[2],
                                                         outgoing_transactions[2])))))
    /\ UNCHANGED << world, session >>

\* The caller drops an operation's future at one of its awaits: its locals go
\* with it.
Abandon(t) ==
    /\ tasks[t].pc \in Suspended
    /\ tasks' = SetTask(t, [NewTask EXCEPT !.op = tasks[t].op, !.pc = "abandoned"])
    /\ UNCHANGED << world, session >>

Next ==
    \/ Connect
    \/ ConnectReturns
    \/ GetInfoReturns
    \/ AbandonConnect
    \/ \E t \in DOMAIN tasks : CallListVtxos(t)
    \/ \E t \in DOMAIN tasks : CallSpendableVtxos(t)
    \/ \E t \in DOMAIN tasks : CallOffchainBalance(t)
    \/ \E t \in DOMAIN tasks : CallTransactionHistory(t)
    \/ \E t \in DOMAIN tasks : ListVtxosReturns(t)
    \/ \E t \in DOMAIN tasks : SpendableListVtxosReturns(t)
    \/ \E t \in DOMAIN tasks : SpendableFindOutpointsReturns(t)
    \/ \E t \in DOMAIN tasks : HistoryFindOutpointsReturns(t)
    \/ \E t \in DOMAIN tasks : HistoryOutputStatusReturns(t)
    \/ \E t \in DOMAIN tasks : HistoryListVtxosReturns(t)
    \/ \E t \in DOMAIN tasks : Abandon(t)

Spec == Init /\ [][Next]_vars

\* ========================================================= the properties
Callers == DOMAIN tasks

Done(t) == tasks[t].pc = "done"

Returned(t) == Done(t) /\ IsOk(tasks[t].result)

TheVtxo == get_offchain_address(Unwrap(client))[2]

\* The units of a returned spendable set (one entry per identity).
UnitsOf(spendable) == FlatMap(spendable)

Occurs(xs, x) == \E j \in 1..Len(xs) : xs[j] = x

\* The on-chain fact with a unit's output reference, as the chain holds it.
FactOf(u) == { e \in { world.chain[i] : i \in 1..Len(world.chain) } : e.outpoint = u.outpoint }

Unmatched(u) == FactOf(u) = {}

MatchedUnconfirmed(u) == \E e \in FactOf(u) : ~IsSome(e.confirmation_blocktime)

MatchedConfirmed(u) == \E e \in FactOf(u) : IsSome(e.confirmation_blocktime)

ConfirmationOf(u) == Unwrap((CHOOSE e \in FactOf(u) : TRUE).confirmation_blocktime)

ExitDelay == Unwrap(client).server_info.unilateral_exit_delay

\* C1: a unit reported spendable whose output is confirmed on chain is
\* excluded from the set spendable_vtxos returns when the exit-eligibility
\* predicate holds of (time of the call, confirmation time, exit delay), and
\* included while the clock is before confirmation time + exit delay.
C1_ExpiredUnitsExcluded ==
    \A t \in Callers :
        (tasks[t].op = "spendable_vtxos" /\ Returned(t)) =>
            \A i \in 1..Len(world.coordinator.spendable) :
                LET u == world.coordinator.spendable[i]
                    now == Unwrap(tasks[t].now)
                    included == Occurs(UnitsOf(tasks[t].result[2]), u)
                IN  MatchedConfirmed(u) =>
                        /\ can_be_claimed_unilaterally_by_owner(TheVtxo, now, ConfirmationOf(u))
                               => ~included
                        /\ now < ConfirmationOf(u) + ExitDelay => included

\* C2: in every set spendable_vtxos returns, each unit reported spendable
\* that has no on-chain fact, or whose on-chain fact is unconfirmed, is
\* present, whatever the clock, the exit delay and the other units are.
C2_UnconfirmedUnitsIncluded ==
    \A t \in Callers :
        (tasks[t].op = "spendable_vtxos" /\ Returned(t)) =>
            \A i \in 1..Len(world.coordinator.spendable) :
                LET u == world.coordinator.spendable[i]
                IN  (Unmatched(u) \/ MatchedUnconfirmed(u)) =>
                        Occurs(UnitsOf(tasks[t].result[2]), u)

\* A returned set holding a unit without on-chain fact next to a unit whose
\* fact is unconfirmed, read at the latest clock.
C2_Witness ==
    \E t \in Callers :
        /\ tasks[t].op = "spendable_vtxos" /\ Returned(t)
        /\ tasks[t].now = Some(MaxTime)
        /\ \E u, v \in { UnitsOf(tasks[t].result[2])[j] : j \in 1..Len(UnitsOf(tasks[t].result[2])) } :
              Unmatched(u) /\ MatchedUnconfirmed(v)

\* What an operation returns when it runs alone against the world and none
\* of its steps fails.
RECURSIVE BoardingRecordsFrom(_, _)
BoardingRecordsFrom(b, i) ==
    IF i > Len(b) THEN << >> ELSE << BoardingRecord(b[i]) >> \o BoardingRecordsFrom(b, i + 1)

AloneOk(op, now) ==
    LET reconciled ==
            FilterSpendable(world.coordinator.spendable, world.chain, TheVtxo, now)
    IN  IF op = "list_vtxos" THEN Ok(AppendListVtxo(EmptyListVtxo, world.coordinator))
        ELSE IF op = "spendable_vtxos" THEN Ok(<< << reconciled[2], TheVtxo >> >>)
        ELSE IF op = "offchain_balance" THEN Ok(BalanceOf(<< << reconciled[2], TheVtxo >> >>))
        ELSE Ok(SortByKey(Concat(BoardingRecordsFrom(world.boarding, 1),
                                 world.incoming, world.outgoing)))

RECURSIVE SumOver(_, _)
SumOver(xs, I) ==
    IF I = {} THEN 0
    ELSE LET i == CHOOSE j \in I : TRUE IN xs[i].amount + SumOver(xs, I \ {i})

\* C3: the balance offchain_balance returns has pending = the sum of the
\* amounts of the units of the reconciled set with is_pending set, confirmed
\* = the sum of the others, and pending + confirmed = total() = the sum of
\* all amounts of that set, the set being the one spendable_vtxos returns.
C3_BalancePartition ==
    \A t \in Callers :
        (tasks[t].op = "offchain_balance" /\ Returned(t)) =>
            LET xs == UnitsOf(tasks[t].list)
                b == tasks[t].result[2]
            IN  /\ pending(b) = SumOver(xs, { i \in 1..Len(xs) : xs[i].is_pending })
                /\ confirmed(b) = SumOver(xs, { i \in 1..Len(xs) : ~xs[i].is_pending })
                /\ total(b) = SumOver(xs, 1..Len(xs))
                /\ pending(b) + confirmed(b) = total(b)
                /\ Ok(tasks[t].list) = AloneOk("spendable_vtxos", Unwrap(tasks[t].now))

\* A balance over a pending unit whose output is confirmed on chain and a
\* finalized unit whose output is not.
C3_Witness ==
    \E t \in Callers :
        /\ tasks[t].op = "offchain_balance" /\ Returned(t)
        /\ LET xs == UnitsOf(tasks[t].list)
           IN  \E i, j \in 1..Len(xs) :
                  /\ xs[i].is_pending /\ MatchedConfirmed(xs[i])
                  /\ ~xs[j].is_pending /\ ~MatchedConfirmed(xs[j])

\* The concatenation a finished transaction_history sorted.
ConcatOf(t) == Concat(tasks[t].boarding_transactions, world.incoming, world.outgoing)

\* The place of the k-th record of c in a stable ascending sort of c.
Rank(c, k) ==
    Cardinality({ j \in 1..Len(c) :
                    \/ created_at(c[j]) < created_at(c[k])
                    \/ created_at(c[j]) = created_at(c[k]) /\ j <= k })

\* C4: the list transaction_history returns is the concatenation boarding,
\* incoming, outgoing in ascending order of created_at, records of equal
\* created_at keeping their order in the concatenation.
C4_HistoryStableSorted ==
    \A t \in Callers :
        (tasks[t].op = "transaction_history" /\ Returned(t)) =>
            LET c == ConcatOf(t)
                r == tasks[t].result[2]
            IN  /\ Len(r) = Len(c)
                /\ \A k \in 1..Len(c) : r[Rank(c, k)] = c[k]
                /\ \A k \in 1..(Len(r) - 1) : created_at(r[k]) <= created_at(r[k + 1])

\* A returned history the sort had to reorder, with a boarding, an incoming
\* and an outgoing record all of one creation time.
C4_Witness ==
    \E t \in Callers :
        /\ tasks[t].op = "transaction_history" /\ Returned(t)
        /\ LET c == ConcatOf(t)
               r == tasks[t].result[2]
           IN  /\ r # c
               /\ \E i, j, k \in 1..Len(r) :
                     /\ i < j /\ j < k
                     /\ r[i].kind = "Boarding" /\ r[j].kind = "Incoming"
                     /\ r[k].kind = "Outgoing"
                     /\ created_at(r[i]) = created_at(r[j])
                     /\ created_at(r[j]) = created_at(r[k])

\* C5: a collaborator step that fails is the last step of its operation, and
\* the operation returns that very error: nothing is retried and nothing
\* gathered before is returned.
C5_ErrorsPropagate ==
    \A t \in Callers :
        \A i \in 1..Len(tasks[t].log) :
            IsErr(tasks[t].log[i].ret) =>
                /\ i = Len(tasks[t].log)
                /\ Done(t)
                /\ tasks[t].result = tasks[t].log[i].ret

\* A history whose second get_output_status failed after the first output
\* had given a boarding record and a transition.
C5_Witness ==
    \E t \in Callers :
        /\ tasks[t].op = "transaction_history" /\ Done(t) /\ IsErr(tasks[t].result)
        /\ Len(tasks[t].boarding_transactions) = 2
        /\ Len(tasks[t].boarding_round_transactions) = 1
        /\ tasks[t].log[Len(tasks[t].log)].call = "get_output_status"

\* transaction_history is past its loop over the boarding outputs.
LoopDone(t) ==
    /\ tasks[t].op = "transaction_history"
    /\ \/ tasks[t].pc = "list_vtxos"
       \/ Done(t) /\ \E i \in 1..Len(tasks[t].log) : tasks[t].log[i].call = "list_vtxos"

Count(xs, x) == Cardinality({ j \in 1..Len(xs) : xs[j] = x })

\* C6: past the loop, transaction_history holds exactly one boarding record
\* per output found at the boarding address, in order, with the output's
\* transaction id, amount and confirmation time (absent when unconfirmed);
\* and one transition per output whose spend status names a spending
\* transaction, none for the others.
C6_BoardingRecords ==
    \A t \in Callers :
        LoopDone(t) =>
            LET b == world.boarding
                bt == tasks[t].boarding_transactions
                brt == tasks[t].boarding_round_transactions
            IN  /\ Len(bt) = Len(b)
                /\ \A i \in 1..Len(b) :
                      /\ bt[i].kind = "Boarding"
                      /\ bt[i].txid = b[i].outpoint.txid
                      /\ bt[i].amount = b[i].amount
                      /\ bt[i].confirmed_at = b[i].confirmation_blocktime
                /\ Len(brt) = Cardinality({ i \in 1..Len(b) :
                                              IsSome(BoardingSpend(b[i].outpoint.txid)) })
                /\ \A i \in 1..Len(b) :
                      LET s == BoardingSpend(b[i].outpoint.txid)
                      IN  IF IsSome(s)
                          THEN Count(brt, Unwrap(s)) =
                                   Cardinality({ j \in 1..Len(b) : b[j] = b[i] })
                          ELSE TRUE

\* Past the loop over a spent output and an unspent, unconfirmed one.
C6_Witness ==
    \E t \in Callers :
        /\ LoopDone(t) /\ Returned(t)
        /\ Len(tasks[t].boarding_transactions) = 2
        /\ Len(tasks[t].boarding_round_transactions) = 1
        /\ \E i \in 1..2 : /\ world.boarding[i].is_spent
                           /\ IsSome(world.boarding[i].confirmation_blocktime)
        /\ \E i \in 1..2 : /\ ~world.boarding[i].is_spent
                           /\ ~IsSome(world.boarding[i].confirmation_blocktime)

\* C7: two finished calls of spendable_vtxos, or of transaction_history, on
\* one session whose collaborators (the clock among them) answered both the
\* same way returned the same result.
C7_Idempotent ==
    \A t, u \in Callers :
        ( /\ Done(t) /\ Done(u)
          /\ tasks[t].op = tasks[u].op
          /\ tasks[t].op \in {"spendable_vtxos", "transaction_history"}
          /\ tasks[t].log = tasks[u].log ) =>
            tasks[t].result = tasks[u].result

\* Two histories returned on one session from the same answers.
C7_Witness ==
    \E t, u \in Callers :
        /\ t # u /\ Returned(t) /\ Returned(u)
        /\ tasks[t].op = "transaction_history" /\ tasks[u].op = "transaction_history"
        /\ tasks[t].log = tasks[u].log
        /\ Len(tasks[t].result[2]) = 4

Answered(name, ok) == \E i \in 1..Len(transport_log) : transport_log[i] = << name, ok >>

Requested(name) == Answered(name, TRUE) \/ Answered(name, FALSE)

HandshakeInv ==
    /\ Len(transport_log) <= 2
    /\ Requested("get_info") => transport_log[1] = << "connect", TRUE >>
    /\ IsSome(client) <=> Answered("get_info", TRUE)
    /\ IsSome(client) => /\ transport_log = << << "connect", TRUE >>, << "get_info", TRUE >> >>
                         /\ IsOk(connect_result)
    /\ (Answered("connect", FALSE) \/ Answered("get_info", FALSE)) =>
            /\ IsErr(connect_result)
            /\ client = None /\ offline = None /\ handshake = None
    /\ (\E t \in Callers : tasks[t].pc # "idle") => IsSome(client)

\* C8: a Client exists only after connect() and then get_info() both
\* succeeded, in that order; after a failed connect() no get_info() is
\* requested; after either failure connect returned the error, there is no
\* Client and the unconnected session is gone for good; and the Client, with
\* the coordinator parameters stored in it, never changes afterwards.
C8_Handshake ==
    /\ []HandshakeInv
    /\ [][ /\ IsSome(client) => client' = client
           /\ offline = None => offline' = None
           /\ (handshake = None /\ offline = None) => handshake' = None ]_vars

\* A connected session on which an operation has returned.
C8_Witness == IsSome(client) /\ \E t \in Callers : Returned(t)

\* C9: the history generations are called with the full sets list_vtxos
\* returned, spent and spendable, and the incoming one alone also with the
\* boarding transitions.
C9_HistoryUnfiltered ==
    \A t \in Callers :
        \A i \in 1..Len(tasks[t].log) :
            LET full == AppendListVtxo(EmptyListVtxo, world.coordinator)
            IN  /\ tasks[t].log[i].call = "generate_incoming" =>
                      tasks[t].log[i].args =
                          << full.spent, full.spendable, tasks[t].boarding_round_transactions >>
                /\ tasks[t].log[i].call = "generate_outgoing" =>
                      tasks[t].log[i].args = << full.spent, full.spendable >>

\* Both generations were called with a spent unit and with a spendable unit
\* whose exit timelock has elapsed, and the incoming one with a transition.
C9_Witness ==
    \E t \in Callers :
        /\ Returned(t)
        /\ \E i, j \in 1..Len(tasks[t].log) :
              /\ tasks[t].log[i].call = "generate_incoming"
              /\ tasks[t].log[j].call = "generate_outgoing"
              /\ Len(tasks[t].log[i].args[1]) > 0
              /\ Len(tasks[t].log[i].args[3]) > 0
              /\ \E k \in 1..Len(tasks[t].log[j].args[2]) :
                    LET u == tasks[t].log[j].args[2][k]
                    IN  /\ MatchedConfirmed(u)
                        /\ can_be_claimed_unilaterally_by_owner(TheVtxo, MaxTime, ConfirmationOf(u))

\* C10: however the operations on one session interleave, an operation that
\* returns Ok returns what it returns alone; and a step of one operation, its
\* abandonment included, changes neither the session nor another operation.
C10_Isolation ==
    /\ [](\A t \in Callers :
            Returned(t) =>
                tasks[t].result =
                    AloneOk(tasks[t].op,
                            IF IsSome(tasks[t].now) THEN Unwrap(tasks[t].now) ELSE 0))
    /\ [][ \A t \in Callers :
              tasks'[t] # tasks[t] =>
                  /\ session' = session
                  /\ \A u \in Callers \ {t} : tasks'[u] = tasks[u] ]_vars

\* A history has returned while another history is suspended inside its loop
\* over the boarding outputs, at its second output.
C10_Witness ==
    \E t, u \in Callers :
        /\ t # u
        /\ tasks[t].op = "transaction_history" /\ Returned(t)
        /\ tasks[u].op = "transaction_history" /\ tasks[u].pc = "get_output_status"
        /\ tasks[u].idx = 2

====
